---- MODULE Spec2Model ----
(***************************************************************************)
(* Model selection and walk-forward evaluation of the two ensemble drivers *)
(* EnsembleBagging (ensemble_bagging_regression.py) and                    *)
(* EnsembleCrossValidation (ensemble_cross_validation.py).                 *)
(*                                                                         *)
(* An observation of the time series is represented by its timestamp rank  *)
(* 1..N (timestamps are strictly increasing), so a Series is a sequence of *)
(* ranks and every slice keeps the identity of the observations it holds.  *)
(***************************************************************************)
EXTENDS Integers, Sequences, FiniteSets, TLC

\* ------------------------------------------------------------------ bounds
MaxN == 13          \* data files hold 1..MaxN rows (read_csv refuses an empty file)
MaxT == 2           \* test_size ranges over -MaxT..MaxT
MaxScore == 1       \* fold scores range over 0..MaxScore
MaxSplitN == 8      \* splitter checked alone: series lengths 0..MaxSplitN
MaxSplitK == 5      \* splitter checked alone: n_splits 0..MaxSplitK

\* ------------------------------------------------------- program constants
n_splits == 10      \* TimeSeriesSplit(n_splits=10)

None == "None"

\* fit_failed while no fit has raised
NoFit == [algo |-> None, fold |-> 0]

Bagging == "EnsembleBagging"
CrossValidation == "EnsembleCrossValidation"
Classes == {Bagging, CrossValidation}

\* the order in which the constructors insert the keys into the score dict
Algos == <<"naive", "ar", "arma", "arima", "ets">>
AlgoSet == {Algos[j] : j \in 1..Len(Algos)}

VARIABLES
    cls,          \* which driver runs
    file_len,     \* number of rows of the data file
    arg_test_size,\* the test_size argument of the constructor
    pc,           \* position in main(): constructor, then run_test
    error,        \* the exception that ended the run, or None
    series,       \* self.series
    test_size,    \* self.test_size (0 while unset)
    eval_series,  \* eval_series / self.eval_series
    test_series,  \* self.test_series
    score,        \* the dict score: key -> mean fold score
    score_keys,   \* the keys of score in insertion order
    best_algo,    \* self.best_algo
    assigns,      \* number of assignments to self.best_algo so far
    cv_calls,     \* number of calls of cross_val_score so far
    cv_seen,      \* observations handed to fit or score during cross validation
    fit_failed,   \* [algo, fold] of the fit that raised during scoring, or NoFit
    i,            \* loop variable of run_test
    results,      \* results of run_test
    written,      \* the rows written to result_path (empty until pc = "written")
    sp_n, sp_k, sp_pc, sp_folds   \* the splitter consumed on its own

mainvars == <<cls, file_len, arg_test_size, pc, error, series, test_size,
              eval_series, test_series, score, score_keys, best_algo, assigns,
              cv_calls, cv_seen, fit_failed, i, results, written>>
spvars == <<sp_n, sp_k, sp_pc, sp_folds>>
vars == <<mainvars, spvars>>

\* ------------------------------------------------------------ Python helpers
Min2(a, b) == IF a < b THEN a ELSE b
Max2(a, b) == IF a > b THEN a ELSE b

\* the position a slice bound k denotes in a sequence of length n
SliceBound(k, n) == IF k < 0 THEN Max2(n + k, 0) ELSE Min2(k, n)

\* s[:k]
SliceTo(s, k) == SubSeq(s, 1, SliceBound(k, Len(s)))

\* s[k:]
SliceFrom(s, k) == SubSeq(s, SliceBound(k, Len(s)) + 1, Len(s))

\* s[a:b] for 0 <= a <= b
Slice(s, a, b) == SubSeq(s, SliceBound(a, Len(s)) + 1, SliceBound(b, Len(s)))

\* len(range(start, stop, step)) for step > 0
RangeLen(start, stop, step) ==
    IF stop > start THEN (stop - start + step - 1) \div step ELSE 0

Elems(s) == {s[j] : j \in 1..Len(s)}

RECURSIVE Sum(_)
Sum(s) == IF s = <<>> THEN 0 ELSE s[1] + Sum(Tail(s))

\* numpy mean of an array of fold scores, kept exact as a fraction
Mean(s) == [num |-> Sum(s), den |-> Len(s)]

Less(a, b) == a.num * b.den < b.num * a.den

\* pd.read_csv: one observation per row, in file order
ReadCsvSeries(n) == [p \in 1..n |-> p]


\* ------------------------------------------------ sklearn TimeSeriesSplit
\* TimeSeriesSplit(n_splits=k) refuses k <= 1 when built, and split() refuses
\* a series with fewer samples than n_folds = k + 1
SplitRejects(n, k) == k <= 1 \/ k + 1 > n

\* test_size = n_samples // n_folds
SplitTestSize(n, k) == n \div (k + 1)

\* first element of test_starts
SplitFirstStart_NoRemainder(n, k) == SplitTestSize(n, k)
SplitFirstStart(n, k) == SplitTestSize(n, k) + (n % (k + 1))

\* len(test_starts), test_starts = range(first, n_samples, test_size)
SplitCount(n, k) == RangeLen(SplitFirstStart(n, k), n, SplitTestSize(n, k))

\* indices = np.arange(n_samples)
Indices(n) == [p \in 1..n |-> p - 1]

\* the j-th pair split() yields: (indices[:start], indices[start:start + test_size])
SplitFold(n, k, j) ==
    LET start == SplitFirstStart(n, k) + (j - 1) * SplitTestSize(n, k)
    IN  [train |-> SliceTo(Indices(n), start),
         test  |-> Slice(Indices(n), start, start + SplitTestSize(n, k))]

\* list(TimeSeriesSplit(n_splits=k).split(X)), len(X) = n, when not refused
SplitFolds(n, k) == [j \in 1..SplitCount(n, k) |-> SplitFold(n, k, j)]

\* X[idx] for an array idx of 0-based positions
Take(X, idx) == [j \in 1..Len(idx) |-> X[idx[j] + 1]]

\* ------------------------------------------------ sklearn cross_val_score
\* One call cross_val_score(estimator, X, cv=TimeSeriesSplit(n_splits).split(X)).
\* The estimator is an input: it scores `s` on every fold it is scored on,
\* and its fit raises in fold `fail` (0: in none).  The constructors pass no
\* error_score and catch nothing, so an exception of fit is re-raised
\* (error_score='raise', the default of the scikit-learn these calls were
\* written for) and ends the call.
\* seen: the observations handed to fit and to score before the call ended.
cross_val_score_SkipFailed(X, s, fail) ==
    IF SplitRejects(Len(X), n_splits)
    THEN [raised |-> "ValueError", scores |-> <<>>, seen |-> {}, failed |-> 0]
    ELSE LET folds == SplitFolds(Len(X), n_splits)
             L == Len(folds)
             kept == IF fail \in 1..L THEN L - 1 ELSE L
         IN  [raised |-> None,
              scores |-> [j \in 1..kept |-> s],
              seen   |-> UNION {Elems(Take(X, folds[j].train)) : j \in 1..L}
                         \cup UNION {Elems(Take(X, folds[j].test)) : j \in (1..L) \ {fail}},
              failed |-> IF fail \in 1..L THEN fail ELSE 0]
cross_val_score(X, s, fail) ==
    IF SplitRejects(Len(X), n_splits)
    THEN [raised |-> "ValueError", scores |-> <<>>, seen |-> {}, failed |-> 0]
    ELSE LET folds == SplitFolds(Len(X), n_splits)
             L == Len(folds)
             fitted == IF fail \in 1..L THEN fail ELSE L
             scored == IF fail \in 1..L THEN fail - 1 ELSE L
         IN  [raised |-> IF fail \in 1..L THEN "FitFailed" ELSE None,
              scores |-> [j \in 1..scored |-> s],
              seen   |-> UNION {Elems(Take(X, folds[j].train)) : j \in 1..fitted}
                         \cup UNION {Elems(Take(X, folds[j].test)) : j \in 1..scored},
              failed |-> IF fail \in 1..L THEN fail ELSE 0]

\* ------------------------------------------------------- Python min / max
\* max(iterable, key=f): the first element, in iteration order, that no
\* later element beats
RECURSIVE PyMaxFrom(_, _, _)
PyMaxFrom(keys, f, best) ==
    IF keys = <<>> THEN best
    ELSE PyMaxFrom(Tail(keys), f,
                   IF Less(f[best], f[Head(keys)]) THEN Head(keys) ELSE best)

PyMax_Value(keys, f) == f[PyMaxFrom(Tail(keys), f, Head(keys))]
PyMax(keys, f) == PyMaxFrom(Tail(keys), f, Head(keys))

RECURSIVE PyMinFrom(_, _, _)
PyMinFrom(keys, f, best) ==
    IF keys = <<>> THEN best
    ELSE PyMinFrom(Tail(keys), f,
                   IF Less(f[Head(keys)], f[best]) THEN Head(keys) ELSE best)

PyMin_Flipped(keys, f) == PyMaxFrom(Tail(keys), f, Head(keys))
PyMin(keys, f) == PyMinFrom(Tail(keys), f, Head(keys))

\* The orders in which iterating the dict score may yield its five keys: the
\* insertion order where the interpreter keeps it, any order where it does
\* not (dict order is unspecified before Python 3.7).
DictIterOrders ==
    {p \in [1..Len(Algos) -> AlgoSet] :
        \A a, b \in 1..Len(Algos) : a # b => p[a] # p[b]}

\* -------------------------------------------------- forecasts (collaborators)
\* algo.<name>_forecast(data=...): one value, a function of the algorithm and
\* of the data it is handed
Forecast(a, data) == [algo |-> a, data |-> data]

\* estimator.fit(history); estimator.predict(X): one prediction per row of X
Predict(a, history, X) ==
    [j \in 1..Len(X) |-> [algo |-> a, fit |-> history, at |-> X[j]]]

\* range(n)
PyRange_OneShort(n) == 0..(n - 2)
PyRange(n) == 0..(n - 1)

\* ------------------------------------------------------------ constructor
TestSizes == (0 - MaxT)..MaxT

Init ==
    /\ cls \in Classes
    /\ file_len \in 1..MaxN
    /\ arg_test_size \in TestSizes
    /\ pc = "read_csv"
    /\ error = None
    /\ series = <<>>
    /\ test_size = 0
    /\ eval_series = <<>>
    /\ test_series = <<>>
    /\ score = <<>>
    /\ score_keys = <<>>
    /\ best_algo = None
    /\ assigns = 0
    /\ cv_calls = 0
    /\ cv_seen = {}
    /\ fit_failed = NoFit
    /\ i = 0
    /\ results = <<>>
    /\ written = <<>>
    /\ sp_n = 0 /\ sp_k = 0 /\ sp_pc = "idle" /\ sp_folds = <<>>

Raise(e) == pc' = "raised" /\ error' = e

\* self.series = pd.read_csv(...)
ReadCsv ==
    /\ pc = "read_csv"
    /\ series' = ReadCsvSeries(file_len)
    /\ pc' = "save_test_size"
    /\ UNCHANGED <<cls, file_len, arg_test_size, error, test_size, eval_series,
                   test_series, score, score_keys, best_algo, assigns, cv_calls,
                   cv_seen, fit_failed, i, results, written, spvars>>

\* if test_size <= 0: raise ValueError
TestSizeRejected_Negative(t) == t < 0
TestSizeRejected(t) == t <= 0

SaveTestSize ==
    /\ pc = "save_test_size"
    /\ IF TestSizeRejected(arg_test_size)
       THEN Raise("ValueError") /\ UNCHANGED test_size
       ELSE test_size' = arg_test_size /\ pc' = "exclude" /\ UNCHANGED error
    /\ UNCHANGED <<cls, file_len, arg_test_size, series, eval_series,
                   test_series, score, score_keys, best_algo, assigns, cv_calls,
                   cv_seen, fit_failed, i, results, written, spvars>>

\* self.series[:-test_size]
EvalSlice_Whole(s, t) == s
EvalSlice(s, t) == SliceTo(s, 0 - t)

\* self.series[-test_size:].copy()
TestSlice(s, t) == SliceFrom(s, 0 - t)

\* the two assertions of EnsembleBagging ("be sure"); EnsembleCrossValidation
\* has none
SplitAsserted(c, s, ev, te, t) ==
    c = Bagging => (Len(te) = t /\ Len(te) + Len(ev) = Len(s))

ExcludeTestData ==
    /\ pc = "exclude"
    /\ eval_series' = EvalSlice(series, test_size)
    /\ test_series' = TestSlice(series, test_size)
    /\ IF SplitAsserted(cls, series, eval_series', test_series', test_size)
       THEN pc' = "scoring" /\ UNCHANGED error
       ELSE Raise("AssertionError")
    /\ UNCHANGED <<cls, file_len, arg_test_size, series, test_size, score,
                   score_keys, best_algo, assigns, cv_calls, cv_seen,
                   fit_failed, i, results, written, spvars>>

\* score[name] = cross_val_score(<Name>Estimator(), eval_series, cv=...).mean()
\* for the next of the five names
ScoreStrategy ==
    /\ pc = "scoring"
    /\ \E s \in 0..MaxScore, fail \in 0..n_splits :
         LET a == Algos[Len(score_keys) + 1]
             r == cross_val_score(eval_series, s, fail)
         IN  /\ cv_calls' = cv_calls + 1
             /\ cv_seen' = cv_seen \cup r.seen
             /\ fit_failed' = IF r.failed > 0
                              THEN [algo |-> a, fold |-> r.failed]
                              ELSE fit_failed
             /\ IF r.raised # None
                THEN Raise(r.raised) /\ UNCHANGED <<score, score_keys>>
                ELSE /\ score' = score @@ (a :> Mean(r.scores))
                     /\ score_keys' = Append(score_keys, a)
                     /\ pc' = IF Len(score_keys') = Len(Algos)
                              THEN "find_best" ELSE "scoring"
                     /\ UNCHANGED error
    /\ UNCHANGED <<cls, file_len, arg_test_size, series, test_size,
                   eval_series, test_series, best_algo, assigns, i, results,
                   written, spvars>>

\* self.best_algo = min(score, key=score.get)   (EnsembleBagging)
\* self.best_algo = max(score, key=score.get)   (EnsembleCrossValidation)
FindBest ==
    /\ pc = "find_best"
    /\ \E order \in DictIterOrders :
         /\ Elems(order) = Elems(score_keys)
         /\ best_algo' = IF cls = Bagging THEN PyMin(order, score)
                                          ELSE PyMax(order, score)
    /\ assigns' = assigns + 1
    /\ pc' = "run_test"
    /\ UNCHANGED <<cls, file_len, arg_test_size, error, series, test_size,
                   eval_series, test_series, score, score_keys, cv_calls,
                   cv_seen, fit_failed, i, results, written, spvars>>


\* ---------------------------------------------------------------- run_test
\* the if / elif chain of EnsembleCrossValidation.run_test: the forecast
\* function the loop calls, None for the final `else: assert False`
ForecastFor_NoEts(b) ==
    CASE b = "naive" -> "naive"
      [] b = "ar"    -> "ar"
      [] b = "arma"  -> "arma"
      [] b = "arima" -> "arima"
      [] OTHER       -> None
ForecastFor(b) ==
    CASE b = "naive" -> "naive"
      [] b = "ar"    -> "ar"
      [] b = "arma"  -> "arma"
      [] b = "arima" -> "arima"
      [] b = "ets"   -> "ets"
      [] OTHER       -> None

\* the if / elif chain of EnsembleBagging.run_test: the estimator built
EstimatorFor(b) ==
    CASE b = "naive" -> "naive"
      [] b = "ar"    -> "ar"
      [] b = "arma"  -> "arma"
      [] b = "arima" -> "arima"
      [] b = "ets"   -> "ets"
      [] OTHER       -> None

\* the data argument of the forecast call of step k: self.test_series[i:]
StepData(te, k) == SliceFrom(te, k)

\* results = np.array([]) and the branch taken
RunTestBegin ==
    /\ pc = "run_test"
    /\ cls = CrossValidation
    /\ results' = <<>>
    /\ i' = 0
    /\ IF ForecastFor(best_algo) = None
       THEN Raise("AssertionError")
       ELSE pc' = "loop" /\ UNCHANGED error
    /\ UNCHANGED <<cls, file_len, arg_test_size, series, test_size,
                   eval_series, test_series, score, score_keys, best_algo,
                   assigns, cv_calls, cv_seen, fit_failed, written, spvars>>

\* one iteration of `for i in range(self.test_size)`:
\* results = np.append(results, algo.<name>_forecast(data=self.test_series[i:]))
RunTestStep ==
    /\ pc = "loop"
    /\ i \in PyRange(test_size)
    /\ results' = Append(results,
                         Forecast(ForecastFor(best_algo),
                                  StepData(test_series, i)))
    /\ i' = i + 1
    /\ UNCHANGED <<cls, file_len, arg_test_size, pc, error, series, test_size,
                   eval_series, test_series, score, score_keys, best_algo,
                   assigns, cv_calls, cv_seen, fit_failed, written, spvars>>

\* pd.Series(results).to_csv(result_path, header=False, index=False)
RunTestWrite ==
    /\ pc = "loop"
    /\ i \notin PyRange(test_size)
    /\ written' = results
    /\ pc' = "written"
    /\ UNCHANGED <<cls, file_len, arg_test_size, error, series, test_size,
                   eval_series, test_series, score, score_keys, best_algo,
                   assigns, cv_calls, cv_seen, fit_failed, i, results, spvars>>

\* pd.DataFrame({'Observation': obs, 'Prediction': pred}): one row per index
DataFrameRows(obs, pred) ==
    [j \in 1..Len(obs) |-> [Observation |-> obs[j], Prediction |-> pred[j]]]

\* EnsembleBagging.run_test: estimator.fit(self.eval_series),
\* results = estimator.predict(self.test_series), the frame written
RunTestBagging ==
    /\ pc = "run_test"
    /\ cls = Bagging
    /\ IF EstimatorFor(best_algo) = None
       THEN Raise("AssertionError") /\ UNCHANGED <<results, written>>
       ELSE LET pred == Predict(EstimatorFor(best_algo), eval_series, test_series)
            IN  /\ results' = pred
                /\ IF Len(pred) = Len(test_series)
                   THEN /\ written' = DataFrameRows(test_series, pred)
                        /\ pc' = "written"
                        /\ UNCHANGED error
                   ELSE Raise("ValueError") /\ UNCHANGED written
    /\ UNCHANGED <<cls, file_len, arg_test_size, series, test_size,
                   eval_series, test_series, score, score_keys, best_algo,
                   assigns, cv_calls, cv_seen, fit_failed, i, spvars>>

Next ==
    \/ ReadCsv
    \/ SaveTestSize
    \/ ExcludeTestData
    \/ ScoreStrategy
    \/ FindBest
    \/ RunTestBegin
    \/ RunTestStep
    \/ RunTestWrite
    \/ RunTestBagging

Spec == Init /\ [][Next]_vars

\* ------------------------------------------- the splitter consumed on its own
SplitInit ==
    /\ sp_n \in 0..MaxSplitN
    /\ sp_k \in 0..MaxSplitK
    /\ sp_pc = "new"
    /\ sp_folds = <<>>
    /\ cls = Bagging
    /\ file_len = 0
    /\ arg_test_size = 0
    /\ pc = "idle"
    /\ error = None
    /\ series = <<>>
    /\ test_size = 0
    /\ eval_series = <<>>
    /\ test_series = <<>>
    /\ score = <<>>
    /\ score_keys = <<>>
    /\ best_algo = None
    /\ assigns = 0
    /\ cv_calls = 0
    /\ cv_seen = {}
    /\ fit_failed = NoFit
    /\ i = 0
    /\ results = <<>>
    /\ written = <<>>

\* TimeSeriesSplit(n_splits=sp_k).split(X) with len(X) = sp_n: refused or started
SplitStart ==
    /\ sp_pc = "new"
    /\ sp_pc' = IF SplitRejects(sp_n, sp_k) THEN "raised" ELSE "yielding"
    /\ UNCHANGED <<sp_n, sp_k, sp_folds, mainvars>>

\* the generator yields its next (train, test) pair
SplitYield ==
    /\ sp_pc = "yielding"
    /\ Len(sp_folds) < SplitCount(sp_n, sp_k)
    /\ sp_folds' = Append(sp_folds, SplitFold(sp_n, sp_k, Len(sp_folds) + 1))
    /\ UNCHANGED <<sp_n, sp_k, sp_pc, mainvars>>

\* the generator is exhausted
SplitStop ==
    /\ sp_pc = "yielding"
    /\ Len(sp_folds) >= SplitCount(sp_n, sp_k)
    /\ sp_pc' = "done"
    /\ UNCHANGED <<sp_n, sp_k, sp_folds, mainvars>>

SplitNext == SplitStart \/ SplitYield \/ SplitStop

SpecSplit == SplitInit /\ [][SplitNext]_vars


\* =================================================================== claims
Idx(a) == CHOOSE j \in 1..Len(Algos) : Algos[j] = a
SameScore(a, b) == ~Less(a, b) /\ ~Less(b, a)
Constructed == pc \in {"run_test", "loop", "written"}

\* C1: in the stepwise run of EnsembleCrossValidation, the data handed to
\* the forecast call of step i (entry i + 1 of results) is exactly the eval
\* observations followed by the test observations 0..i-1, and holds no
\* observation at test index i or later.
C1_NoLookAhead ==
    cls = CrossValidation =>
        \A j \in 1..Len(results) :
            /\ results[j].data = eval_series \o SubSeq(test_series, 1, j - 1)
            /\ \A x \in Elems(results[j].data) : x < test_series[j]

\* C2: when run_test has written its result, the result has exactly
\* test_size entries, as many as test_series, and entry i is the forecast of
\* step i (stepwise path) or the prediction paired with observation i
\* (bagging path).
C2_ResultLength ==
    pc = "written" =>
        /\ Len(written) = test_size
        /\ Len(written) = Len(test_series)
        /\ cls = CrossValidation =>
             \A j \in 1..Len(written) :
                 written[j] = Forecast(best_algo, SliceFrom(test_series, j - 1))
        /\ cls = Bagging =>
             \A j \in 1..Len(written) :
                 /\ written[j].Observation = test_series[j]
                 /\ written[j].Prediction = results[j]
                 /\ written[j].Prediction.at = test_series[j]

C2_Witness ==
    /\ pc = "written"
    /\ cls = CrossValidation
    /\ test_size = 2
    /\ Len(written) = 2

C4_TieBreak ==
    best_algo # None =>
        \A a \in AlgoSet :
            SameScore(score[a], score[best_algo]) => Idx(best_algo) <= Idx(a)

\* ---- the rolling-origin splitter
SplitDone == sp_pc \in {"done", "raised"}

\* exactly K pairs; validation ranges are non-empty contiguous blocks, pairwise
\* disjoint, together a suffix of the series of length >= K; each train range
\* is the full prefix before its validation range; every validation index is
\* greater than every index of its train range
SplitContract(n, k, folds) ==
    /\ Len(folds) = k
    /\ \A j \in 1..Len(folds) :
         LET tr == folds[j].train
             te == folds[j].test
         IN  /\ Len(te) >= 1
             /\ \A q \in 1..(Len(te) - 1) : te[q + 1] = te[q] + 1
             /\ tr = [q \in 1..te[1] |-> q - 1]
             /\ \A v \in Elems(te) : \A t \in Elems(tr) : v > t
    /\ \A a, b \in 1..Len(folds) :
         a # b => Elems(folds[a].test) \cap Elems(folds[b].test) = {}
    /\ \E m \in k..n :
         UNION {Elems(folds[j].test) : j \in 1..Len(folds)} = (n - m)..(n - 1)

\* C5 as stated: for every N and K with K <= N the splitter yields K pairs
\* that meet the contract above.
C5_Original ==
    (SplitDone /\ sp_k <= sp_n) =>
        (sp_pc = "done" /\ SplitContract(sp_n, sp_k, sp_folds))

\* C5 amended: for every N and K with 2 <= K < N the splitter yields K pairs
\* that meet the contract above (it refuses K <= 1 and K >= N).
C5_Amended ==
    /\ (SplitDone /\ 2 <= sp_k /\ sp_k < sp_n) =>
           (sp_pc = "done" /\ SplitContract(sp_n, sp_k, sp_folds))
    /\ (SplitDone /\ (sp_k <= 1 \/ sp_k >= sp_n)) =>
           (sp_pc = "raised" /\ sp_folds = <<>>)

C5_Witness ==
    /\ sp_pc = "done"
    /\ sp_k >= 2
    /\ Len(sp_folds) = sp_k
    /\ sp_n % (sp_k + 1) # 0
    /\ Len(sp_folds[1].test) >= 2

C7_FailFast ==
    arg_test_size <= 0 =>
        /\ pc \in {"read_csv", "save_test_size", "raised"}
        /\ pc = "raised" => error = "ValueError"
        /\ cv_calls = 0
        /\ cv_seen = {}
        /\ best_algo = None
        /\ assigns = 0
        /\ written = <<>>

C7_Witness ==
    /\ arg_test_size = 0
    /\ pc = "raised"
    /\ error = "ValueError"
    /\ file_len > 0

\* C8: whenever a constructor goes on to cross-validation scoring with
\* test_size T > 0 on a series of length N, test_series is the last T
\* observations, eval_series the first N - T, len(test_series) = T,
\* len(test_series) + len(eval_series) = N, and the series is as loaded.
C8_Partition ==
    (pc = "scoring" /\ test_size > 0) =>
        /\ Len(test_series) = test_size
        /\ Len(test_series) + Len(eval_series) = Len(series)
        /\ series = ReadCsvSeries(file_len)
        /\ eval_series = SubSeq(series, 1, Len(series) - test_size)
        /\ test_series = SubSeq(series, Len(series) - test_size + 1, Len(series))

\* C9: after construction best_algo is one of the five identifiers, it has
\* been assigned exactly once, run_test leaves it alone, the final
\* `assert False` of run_test is never reached and every forecast or
\* prediction of run_test comes from the selected strategy.
C9_BestAlgoFixed ==
    /\ assigns <= 1
    /\ (assigns = 1) = (best_algo # None)
    /\ Constructed => (best_algo \in AlgoSet /\ assigns = 1)
    /\ assigns = 1 => error # "AssertionError"
    /\ \A j \in 1..Len(results) : results[j].algo = best_algo

C9_Witness ==
    /\ pc = "written"
    /\ cls = CrossValidation
    /\ best_algo = "ets"
    /\ Len(results) = 2

\* C10: every observation handed to fit or score during cross validation is
\* an observation of eval_series (rank <= N - T), none is one of test_series,
\* and best_algo is assigned before the first step of run_test.
C10_NoTestLeak ==
    /\ cv_seen \subseteq Elems(eval_series)
    /\ cv_seen \cap Elems(test_series) = {}
    /\ \A x \in cv_seen : x <= file_len - arg_test_size
    /\ best_algo = None => (results = <<>> /\ i = 0 /\ written = <<>>
                            /\ pc \notin {"loop", "written"})

C10_Witness ==
    /\ pc = "written"
    /\ best_algo # None
    /\ Len(test_series) = 2
    /\ cv_seen = Elems(eval_series)
    /\ Cardinality(cv_seen) >= 11

====
